---- MODULE Spec2Model ----
(***************************************************************************)
(* The photo mosaic (Masonry) and the lightbox viewer (App) of             *)
(* src/src/App.tsx as a state machine.                                     *)
(*                                                                         *)
(* React keeps, for every useState hook, the value of the last committed   *)
(* render and a queue of updates not yet rendered.  Event handlers are     *)
(* closures of the last committed render: they READ `rendered` and APPEND  *)
(* to `queue`.  A render commits the queue; the passive effects            *)
(* (useEffect) of a commit run after it, in one flush.                     *)
(*                                                                         *)
(* Scheduling: updates made by a discrete event (click, keydown,           *)
(* touchstart, touchend) are rendered, and their effects flushed, before   *)
(* any other event or timer callback runs (`urgent`).  Updates made by a   *)
(* touchmove (a continuous event) are rendered later: further events may   *)
(* be handled by the closures of the old render before that.               *)
(***************************************************************************)
EXTENDS Integers, Sequences, FiniteSets, TLC

\* ---------------------------------------------------------------- bounds
NumItems == 3          \* length of the dataset
MaxTouchStep == 3      \* touch x coordinates are 0, 25, .., 25 * MaxTouchStep
MaxPending == 2        \* updates of one hook queued by touch moves before a render
ShuffleMod == 3        \* the shuffle counter counts modulo this
MaxColumns == 3        \* column counts of the layout are 1..MaxColumns
MaxWidthStep == 2      \* container widths are 0, 600, .., 600 * MaxWidthStep
MaxLayoutItems == 4    \* longest item sequence given to the layout
MaxHeightStep == 2     \* item heights given to the layout are 0, 200, ..

\* ------------------------------------------------------------- constants
SwipeThreshold == 50
NULL == -2             \* null of `number | null`
NotFound == -1         \* findIndex's "no such element"
\* An ImageItem held in selectedImage is modelled by its css, the only field
\* the code reads of it (findIndex, img src).
NoImage == "null"      \* null of `ImageItem | null` and of `string | null`
NoTimer == 0           \* `let t: number | undefined`

AllCss == <<"a.jpg", "b.jpg", "c.jpg", "d.jpg", "e.jpg", "f.jpg", "g.jpg">>
AllHeights == <<300, 600, 400, 600, 300, 500, 400>>

\* import data from './data': the canonical, unshuffled list
data == [i \in 1..NumItems |-> [css |-> AllCss[i], height |-> AllHeights[i]]]

TouchXs == {25 * k : k \in 0..MaxTouchStep}
Keys == {"ArrowRight", "ArrowLeft", "Escape", "Enter"}
ClickTargets == {"backdrop", "frame", "img", "prev", "next"}
Hooks == {"selectedImage", "currentIndex", "touchStartX", "isDragging"}

\* The layout divides widths by the column count and heights by 2, and the
\* hover factor is 1.1: the widths and heights below make every one of these
\* an exact integer, as they are exact in the code's doubles.
Widths == {600 * k : k \in 0..MaxWidthStep}
ItemHeights == {200 * k : k \in 0..MaxHeightStep}
ColumnCounts == 1..MaxColumns

VARIABLES
  rendered,        \* App's hook values of the last committed render
  queue,           \* App's queued state updates, per hook
  effectDeps,      \* the dependency values the effects last ran with
  urgent,          \* a discrete event's updates are being flushed
  mounted,         \* the component tree is mounted
  items,           \* Masonry: the item order (useState(data))
  hoveredItemKey,  \* Masonry: css of the hovered tile or NoImage
  t,               \* Masonry effect: its interval handle or NoTimer
  timers,          \* the live interval timers of the window
  shuffles,        \* calls of set(shuffle), modulo ShuffleMod
  listeners,       \* the keydown listeners registered on window
  handler,         \* keydown effect: id of its listener or 0
  columns,         \* Masonry: the column count (useMedia)
  width            \* Masonry: the measured container width (useMeasure)

vars == <<rendered, queue, effectDeps, urgent, mounted, items, hoveredItemKey,
          t, timers, shuffles, listeners, handler,
          columns, width>>

appVars == <<rendered, queue, effectDeps, urgent>>
layoutVars == <<columns, width>>
masonryVars == <<items, hoveredItemKey, t, timers, shuffles, layoutVars>>

\* ------------------------------------------------------- pure functions

\* data.findIndex(img => img.css === css), 0-based, -1 when absent
findIndex(list, css) ==
  IF \E i \in 1..Len(list) : list[i].css = css
    THEN (CHOOSE i \in 1..Len(list) :
            /\ list[i].css = css
            /\ \A j \in 1..(i - 1) : list[j].css # css) - 1
    ELSE NotFound

\* a sampling with replacement: every item drawn independently
Shuffle_WithReplacement(list) ==
  {[i \in 1..Len(list) |-> list[p[i]]] :
     p \in [1..Len(list) -> 1..Len(list)]}

\* the orders lodash's shuffle can return: every permutation of the list
Shuffle(list) ==
  {[i \in 1..Len(list) |-> list[p[i]]] :
     p \in {f \in [1..Len(list) -> 1..Len(list)] :
              \A a, b \in 1..Len(list) : f[a] = f[b] => a = b}}

Abs(n) == IF n < 0 THEN -n ELSE n

EmptyQueue == [h \in Hooks |-> <<>>]

\* the value a hook will have once the queue is rendered
Latest(q, hook) == IF q[hook] = <<>> THEN rendered[hook] ELSE q[hook][Len(q[hook])]

\* a useState setter called with a value: React drops the update when nothing
\* is queued and the value is the rendered one, else it queues it
setState(q, hook, v) ==
  IF q = EmptyQueue /\ rendered[hook] = v
    THEN q
    ELSE [q EXCEPT ![hook] = Append(@, v)]

\* an id no live object of the set uses
FreshId(used) == CHOOSE n \in 1..(Cardinality(used) + 1) : n \notin used

\* ----------------------------------------------------------------- layout

\* Math.min(...heights)
Min(hs) == CHOOSE m \in {hs[i] : i \in 1..Len(hs)} : \A i \in 1..Len(hs) : m <= hs[i]

\* Math.max(...heights)
Max(hs) == CHOOSE m \in {hs[i] : i \in 1..Len(hs)} : \A i \in 1..Len(hs) : m >= hs[i]

\* heights.indexOf(v), 0-based: the first position holding v
indexOf(hs, v) ==
  (CHOOSE i \in 1..Len(hs) : hs[i] = v /\ \A j \in 1..(i - 1) : hs[j] # v) - 1

\* mutant: on a tie the last of the shortest columns is taken
MinColumn_LastOnTie(hs) ==
  (CHOOSE i \in 1..Len(hs) :
     hs[i] = Min(hs) /\ \A j \in (i + 1)..Len(hs) : hs[j] # Min(hs)) - 1

\* a column choice that takes the tallest column
MinColumn_Tallest(hs) == indexOf(hs, Max(hs))

\* const column = heights.indexOf(Math.min(...heights))
MinColumn(hs) == indexOf(hs, Min(hs))

\* a placement whose y is the column's accumulator after the item is added
Place_YAfterAdding(acc, child, C, W) ==
  LET column == MinColumn(acc.heights)
  IN [heights |-> [acc.heights EXCEPT ![column + 1] = @ + child.height \div 2],
      gridItems |-> Append(acc.gridItems,
                           [css |-> child.css,
                            x |-> (W \div C) * column,
                            y |-> acc.heights[column + 1] + child.height \div 2,
                            width |-> W \div C,
                            height |-> child.height \div 2])]

\* a placement that takes the column's new accumulator for the item's height
Place_HeightFromAccumulator(acc, child, C, W) ==
  LET column == MinColumn(acc.heights)
  IN [heights |-> [acc.heights EXCEPT ![column + 1] = @ + child.height \div 2],
      gridItems |-> Append(acc.gridItems,
                           [css |-> child.css,
                            x |-> (W \div C) * column,
                            y |-> acc.heights[column + 1],
                            width |-> W \div C,
                            height |-> acc.heights[column + 1]
                                         + child.height \div 2])]

\* a placement that leaves a fixed gutter of 10 before every column but
\* the first
Place_WithGutter(acc, child, C, W) ==
  LET column == MinColumn(acc.heights)
  IN [heights |-> [acc.heights EXCEPT ![column + 1] = @ + child.height \div 2],
      gridItems |-> Append(acc.gridItems,
                           [css |-> child.css,
                            x |-> (W \div C) * column + 10 * column,
                            y |-> acc.heights[column + 1],
                            width |-> W \div C,
                            height |-> child.height \div 2])]

\* one call of the items.map callback: the placement of child, appended, and
\* its render height added to its column
Place(acc, child, C, W) ==
  LET column == MinColumn(acc.heights)
  IN [heights |-> [acc.heights EXCEPT ![column + 1] = @ + child.height \div 2],
      gridItems |-> Append(acc.gridItems,
                           [css |-> child.css,
                            x |-> (W \div C) * column,
                            y |-> acc.heights[column + 1],
                            width |-> W \div C,
                            height |-> child.height \div 2])]

RECURSIVE LayoutFrom(_, _, _, _)
LayoutFrom(acc, its, C, W) ==
  IF its = <<>>
    THEN acc
    ELSE LayoutFrom(Place(acc, Head(its), C, W), Tail(its), C, W)

\* the useMemo callback: [heights, gridItems] of (columns, items, width)
Layout(its, C, W) ==
  LayoutFrom([heights |-> [c \in 1..C |-> 0], gridItems |-> <<>>], its, C, W)

\* const [heights, gridItems] = useMemo(..., [columns, items, width]): the
\* memo's value in the current render, a function of its dependencies
heights == Layout(items, columns, width).heights
gridItems == Layout(items, columns, width).gridItems

\* mutant: the container takes the height of the last column
ContainerHeight_LastColumn(hs) == hs[Len(hs)]

\* style={{ height: Math.max(...heights) }}
ContainerHeight(hs) == Max(hs)

\* a hover modifier that widens the tile but keeps its height
update_ScalesWidthOnly(animatedProps, item) ==
  [x |-> animatedProps.x,
   y |-> animatedProps.y,
   width |-> IF item.css = hoveredItemKey
               THEN (animatedProps.width * 11) \div 10
               ELSE animatedProps.width,
   height |-> animatedProps.height]

\* useTransition's update callback: the target of a placement
update(animatedProps, item) ==
  [x |-> animatedProps.x,
   y |-> animatedProps.y,
   width |-> IF item.css = hoveredItemKey
               THEN (animatedProps.width * 11) \div 10
               ELSE animatedProps.width,
   height |-> IF item.css = hoveredItemKey
                THEN (animatedProps.height * 11) \div 10
                ELSE animatedProps.height]

\* ------------------------------------------------------------ App handlers
\* Each handler maps the update queue to the queue after the call.  The
\* values of `rendered` it reads are the values its closure captured.

\* mutant: the next entry taken at the closure's own index
nextImage_OffByOne(q, currentIndex) ==
  IF currentIndex # NULL /\ currentIndex < Len(data) - 1
    THEN setState(q, "selectedImage", data[currentIndex + 1].css)
    ELSE q

\* mutant: next() wraps around at the last index
nextImage_Wrap(q, currentIndex) ==
  IF currentIndex # NULL
    THEN setState(q, "selectedImage", data[((currentIndex + 1) % Len(data)) + 1].css)
    ELSE q

nextImage(q, currentIndex) ==
  IF currentIndex # NULL /\ currentIndex < Len(data) - 1
    THEN setState(q, "selectedImage", data[(currentIndex + 1) + 1].css)
    ELSE q

prevImage(q, currentIndex) ==
  IF currentIndex # NULL /\ currentIndex > 0
    THEN setState(q, "selectedImage", data[(currentIndex - 1) + 1].css)
    ELSE q

\* the listener of the keydown effect; currentIndex is the one its render had
handleKeyDown(q, currentIndex, key) ==
  CASE key = "ArrowRight" -> nextImage(q, currentIndex)
    [] key = "ArrowLeft" -> prevImage(q, currentIndex)
    [] key = "Escape" -> setState(q, "selectedImage", NoImage)
    [] OTHER -> q

handleTouchStart(q, clientX) ==
  setState(setState(q, "touchStartX", clientX), "isDragging", TRUE)

\* mutant: a move steps from the latest selection, not from the rendered index
handleTouchMove_FromLatest(q, currentX) ==
  IF ~rendered.isDragging \/ rendered.touchStartX = NULL
    THEN q
    ELSE LET diff == rendered.touchStartX - currentX
             latest == findIndex(data, Latest(q, "selectedImage"))
         IN IF Abs(diff) > SwipeThreshold
              THEN setState(IF diff > 0
                              THEN nextImage(q, latest)
                              ELSE prevImage(q, latest),
                            "isDragging", FALSE)
              ELSE q

\* mutant: a move of exactly the threshold navigates
handleTouchMove_AtThreshold(q, currentX) ==
  IF ~rendered.isDragging \/ rendered.touchStartX = NULL
    THEN q
    ELSE LET diff == rendered.touchStartX - currentX
         IN IF Abs(diff) >= SwipeThreshold
              THEN setState(IF diff > 0
                              THEN nextImage(q, rendered.currentIndex)
                              ELSE prevImage(q, rendered.currentIndex),
                            "isDragging", FALSE)
              ELSE q

handleTouchMove(q, currentX) ==
  IF ~rendered.isDragging \/ rendered.touchStartX = NULL
    THEN q
    ELSE LET diff == rendered.touchStartX - currentX
         IN IF Abs(diff) > SwipeThreshold
              THEN setState(IF diff > 0
                              THEN nextImage(q, rendered.currentIndex)
                              ELSE prevImage(q, rendered.currentIndex),
                            "isDragging", FALSE)
              ELSE q

handleTouchEnd(q) ==
  setState(setState(q, "isDragging", FALSE), "touchStartX", NULL)

\* the overlay is in the DOM: selectedImage && currentIndex !== null
OverlayRendered ==
  rendered.selectedImage # NoImage /\ rendered.currentIndex # NULL

\* <button disabled={...}>: a disabled button receives no click
Disabled(target) ==
  \/ target = "prev" /\ rendered.currentIndex = 0
  \/ target = "next" /\ rendered.currentIndex = Len(data) - 1

\* mutant: the image's onClick does not stop the propagation
StopsPropagation_NotImg(target) == target \in {"prev", "next"}

\* the handlers that call e.stopPropagation()
StopsPropagation(target) == target \in {"prev", "next", "img"}

\* a click inside the overlay: the target's own handler, then, unless it
\* stopped the propagation, the backdrop's onClick
handleClick(q, target) ==
  LET own == CASE target = "prev" -> prevImage(q, rendered.currentIndex)
               [] target = "next" -> nextImage(q, rendered.currentIndex)
               [] OTHER -> q
  IN IF StopsPropagation(target)
       THEN own
       ELSE setState(own, "selectedImage", NoImage)

\* every keydown listener registered on window handles the key
RECURSIVE dispatchKeyDown(_, _, _)
dispatchKeyDown(q, ls, key) ==
  IF ls = {}
    THEN q
    ELSE LET l == CHOOSE x \in ls : \A y \in ls : x.id <= y.id
         IN dispatchKeyDown(handleKeyDown(q, l.currentIndex, key), ls \ {l}, key)

\* ---------------------------------------------------------------- effects

\* the dependencies of App's effects, as of the committed render
Deps == [selectedImage |-> rendered.selectedImage,
         currentIndex |-> rendered.currentIndex]

\* the committed render's effects have not run yet
EffectsPending == effectDeps # Deps

Settled == queue = EmptyQueue /\ ~EffectsPending

\* Masonry's prop isOverlayActive={!!selectedImage}
isOverlayActive(selectedImage) == selectedImage # NoImage

\* mutant: a cleanup that clears nothing
MasonryCleanup_NoClear(handle, live) == live

\* cleanup of Masonry's effect: if (t) window.clearInterval(t)
MasonryCleanup(handle, live) ==
  IF handle # NoTimer THEN live \ {handle} ELSE live

\* a cleanup that leaves the listener registered
KeyDownCleanup_RemovesNothing(id, ls) == ls

\* cleanup of the keydown effect: removeEventListener of its own listener
KeyDownCleanup(id, ls) == {l \in ls : l.id # id}

\* mutant: the index is looked up in the mosaic's order
IndexEffect_InMosaicOrder(q) ==
  IF rendered.selectedImage # NoImage
    THEN LET idx == findIndex(items, rendered.selectedImage)
         IN setState(q, "currentIndex", IF idx # NotFound THEN idx ELSE NULL)
    ELSE setState(q, "currentIndex", NULL)

\* useEffect(..., [selectedImage]): the index of the selected image
IndexEffect(q) ==
  IF rendered.selectedImage # NoImage
    THEN LET idx == findIndex(data, rendered.selectedImage)
         IN setState(q, "currentIndex", IF idx # NotFound THEN idx ELSE NULL)
    ELSE setState(q, "currentIndex", NULL)

\* ----------------------------------------------------------------- state

\* After the first render and its effects: nothing selected, the mosaic
\* shuffled once and its interval running (isOverlayActive is false).
Init ==
  /\ rendered = [selectedImage |-> NoImage, currentIndex |-> NULL,
                 touchStartX |-> NULL, isDragging |-> FALSE]
  /\ queue = EmptyQueue
  /\ effectDeps = [selectedImage |-> NoImage, currentIndex |-> NULL]
  /\ urgent = FALSE
  /\ mounted = TRUE
  /\ items \in Shuffle(data)
  /\ hoveredItemKey = NoImage
  /\ t = 1
  /\ timers = {1}
  /\ shuffles = 1
  /\ listeners = {}
  /\ handler = 0
  /\ columns = 2
  /\ width = 600

\* a discrete event ran its handlers: what they queued is flushed at once
Discrete(q) ==
  /\ queue' = q
  /\ urgent' = (q # queue)
  /\ UNCHANGED <<rendered, effectDeps, mounted, masonryVars, listeners, handler>>

\* ------------------------------------------------------------ user events

\* a tile of the mosaic is clicked: onClick={() => onSelectImage(item)}
SelectImage(k) ==
  /\ mounted /\ ~urgent
  /\ Discrete(setState(queue, "selectedImage", items[k].css))

\* a click inside the overlay
Click(target) ==
  /\ mounted /\ ~urgent
  /\ OverlayRendered
  /\ ~Disabled(target)
  /\ Discrete(handleClick(queue, target))

\* a key is pressed: window's keydown listeners run
KeyDown(key) ==
  /\ mounted /\ ~urgent
  /\ Discrete(dispatchKeyDown(queue, listeners, key))

TouchStart(x) ==
  /\ mounted /\ ~urgent
  /\ OverlayRendered
  /\ Discrete(handleTouchStart(queue, x))

\* touchmove is a continuous event: its updates are rendered later
TouchMove(x) ==
  /\ mounted /\ ~urgent
  /\ OverlayRendered
  /\ \A h \in Hooks : Len(queue[h]) < MaxPending
  /\ queue' = handleTouchMove(queue, x)
  /\ UNCHANGED <<rendered, effectDeps, urgent, mounted, masonryVars,
                 listeners, handler>>

TouchEnd ==
  /\ mounted /\ ~urgent
  /\ OverlayRendered
  /\ Discrete(handleTouchEnd(queue))

\* onMouseEnter={() => setHoveredItemKey(item.css)}
MouseEnter(k) ==
  /\ mounted /\ ~urgent
  /\ hoveredItemKey' = items[k].css
  /\ UNCHANGED <<appVars, mounted, items, t, timers, shuffles, listeners, handler,
                 layoutVars>>

\* onMouseLeave={() => setHoveredItemKey(null)}
MouseLeave ==
  /\ mounted /\ ~urgent
  /\ hoveredItemKey' = NoImage
  /\ UNCHANGED <<appVars, mounted, items, t, timers, shuffles, listeners, handler,
                 layoutVars>>

\* ------------------------------------------------------------------ timer

\* a tick that also drops the hover
Tick_ClearsHover ==
  /\ mounted /\ ~urgent
  /\ timers # {}
  /\ items' \in Shuffle(items)
  /\ shuffles' = (shuffles + 1) % ShuffleMod
  /\ hoveredItemKey' = NoImage
  /\ UNCHANGED layoutVars
  /\ UNCHANGED <<appVars, mounted, t, timers, listeners, handler>>

\* a live interval fires: () => set(shuffle)
Tick ==
  /\ mounted /\ ~urgent
  /\ timers # {}
  /\ items' \in Shuffle(items)
  /\ shuffles' = (shuffles + 1) % ShuffleMod
  /\ UNCHANGED layoutVars
  /\ UNCHANGED <<appVars, mounted, hoveredItemKey, t, timers, listeners, handler>>

\* ------------------------------------------------------------------ React

\* the queued updates are rendered and committed
Render ==
  /\ mounted
  /\ queue # EmptyQueue
  /\ ~EffectsPending
  /\ rendered' = [h \in Hooks |-> Latest(queue, h)]
  /\ queue' = EmptyQueue
  /\ urgent' = (urgent /\ effectDeps # [selectedImage |-> rendered'.selectedImage,
                                        currentIndex |-> rendered'.currentIndex])
  /\ UNCHANGED <<effectDeps, mounted, masonryVars, listeners, handler>>

\* mutant: the effect without its `if (!isOverlayActive)` test
MasonryEffect_IgnoresOverlay ==
  IF isOverlayActive(rendered.selectedImage) = isOverlayActive(effectDeps.selectedImage)
    THEN UNCHANGED <<items, t, timers, shuffles>>
    ELSE LET live == MasonryCleanup(t, timers)
         IN /\ items' \in Shuffle(items)
            /\ shuffles' = (shuffles + 1) % ShuffleMod
            /\ t' = FreshId(live)
            /\ timers' = live \cup {FreshId(live)}

\* mutant: the effect without its immediate set(shuffle)
MasonryEffect_NoImmediateShuffle ==
  IF isOverlayActive(rendered.selectedImage) = isOverlayActive(effectDeps.selectedImage)
    THEN UNCHANGED <<items, t, timers, shuffles>>
    ELSE LET live == MasonryCleanup(t, timers)
         IN IF ~isOverlayActive(rendered.selectedImage)
              THEN /\ t' = FreshId(live)
                   /\ timers' = live \cup {FreshId(live)}
                   /\ UNCHANGED <<items, shuffles>>
              ELSE /\ t' = NoTimer
                   /\ timers' = live
                   /\ UNCHANGED <<items, shuffles>>

\* Masonry's effect, deps [isOverlayActive]: cleanup of the last run, then,
\* with the lightbox closed, one shuffle and a new interval
MasonryEffect ==
  IF isOverlayActive(rendered.selectedImage) = isOverlayActive(effectDeps.selectedImage)
    THEN UNCHANGED <<items, t, timers, shuffles>>
    ELSE LET live == MasonryCleanup(t, timers)
         IN IF ~isOverlayActive(rendered.selectedImage)
              THEN /\ items' \in Shuffle(items)
                   /\ shuffles' = (shuffles + 1) % ShuffleMod
                   /\ t' = FreshId(live)
                   /\ timers' = live \cup {FreshId(live)}
              ELSE /\ t' = NoTimer
                   /\ timers' = live
                   /\ UNCHANGED <<items, shuffles>>

\* the keydown effect, deps [selectedImage, currentIndex]: cleanup of the
\* last run, then, with an image selected, a new listener of this render
KeyDownEffect ==
  LET ls == KeyDownCleanup(handler, listeners)
  IN IF rendered.selectedImage # NoImage
       THEN /\ handler' = FreshId({l.id : l \in ls})
            /\ listeners' = ls \cup {[id |-> FreshId({l.id : l \in ls}),
                                      currentIndex |-> rendered.currentIndex]}
       ELSE /\ handler' = 0
            /\ listeners' = ls

\* the passive effects of the committed render, in one flush
RunEffects ==
  /\ mounted
  /\ EffectsPending
  /\ MasonryEffect
  /\ UNCHANGED layoutVars
  /\ queue' = IF rendered.selectedImage # effectDeps.selectedImage
                THEN IndexEffect(queue)
                ELSE queue
  /\ KeyDownEffect
  /\ effectDeps' = Deps
  /\ urgent' = (urgent /\ queue' # EmptyQueue)
  /\ UNCHANGED <<rendered, mounted, hoveredItemKey>>

\* the tree is unmounted: every effect's cleanup runs
Unmount ==
  /\ mounted /\ ~urgent
  /\ mounted' = FALSE
  /\ timers' = MasonryCleanup(t, timers)
  /\ t' = NoTimer
  /\ listeners' = KeyDownCleanup(handler, listeners)
  /\ handler' = 0
  /\ UNCHANGED <<appVars, items, hoveredItemKey, shuffles, layoutVars>>

Next ==
  \/ \E k \in 1..NumItems : SelectImage(k)
  \/ \E target \in ClickTargets : Click(target)
  \/ \E key \in Keys : KeyDown(key)
  \/ \E x \in TouchXs : TouchStart(x)
  \/ \E x \in TouchXs : TouchMove(x)
  \/ TouchEnd
  \/ \E k \in 1..NumItems : MouseEnter(k)
  \/ MouseLeave
  \/ Tick
  \/ Render
  \/ RunEffects
  \/ Unmount

Spec == Init /\ [][Next]_vars

\* ------------------------------------------------- the layout on its own
\* The useMemo callback is a function of (columns, items, width).  This
\* specification gives it every item sequence, column count and width of
\* the bounds, and lets the container be resized and the column count change.

\* It starts as the first render does: two columns (useMedia's default) and
\* a container not yet measured.

\* item sequences: distinct css, any heights
LayoutInputs ==
  UNION {[1..n -> ItemHeights] : n \in 0..MaxLayoutItems}

LayoutInit ==
  /\ rendered = [selectedImage |-> NoImage, currentIndex |-> NULL,
                 touchStartX |-> NULL, isDragging |-> FALSE]
  /\ queue = EmptyQueue
  /\ effectDeps = [selectedImage |-> NoImage, currentIndex |-> NULL]
  /\ urgent = FALSE
  /\ mounted = TRUE
  /\ \E hs \in LayoutInputs :
       items = [i \in 1..Len(hs) |-> [css |-> AllCss[i], height |-> hs[i]]]
  /\ hoveredItemKey = NoImage
  /\ t = 1
  /\ timers = {1}
  /\ shuffles = 1
  /\ listeners = {}
  /\ handler = 0
  /\ columns = 2
  /\ width = 0

\* useMeasure reports a new container width
Resize(w) ==
  /\ mounted /\ ~urgent
  /\ width' = w
  /\ UNCHANGED <<columns, items>>
  /\ UNCHANGED <<appVars, mounted, hoveredItemKey, t, timers, shuffles,
                 listeners, handler>>

\* useMedia reports a new column count
MediaChange(c) ==
  /\ mounted /\ ~urgent
  /\ columns' = c
  /\ UNCHANGED <<width, items>>
  /\ UNCHANGED <<appVars, mounted, hoveredItemKey, t, timers, shuffles,
                 listeners, handler>>

LayoutNext ==
  \/ \E w \in Widths : Resize(w)
  \/ \E c \in ColumnCounts : MediaChange(c)

LayoutSpec == LayoutInit /\ [][LayoutNext]_vars

\* ----------------------------------------------------------- properties

\* the value of a hook after the step, once its queue is rendered
LatestNext(hook) ==
  IF queue'[hook] = <<>>
    THEN rendered'[hook]
    ELSE queue'[hook][Len(queue'[hook])]

\* C1: in every state of the viewer, the states between a change of the
\* selected item and the index effect included, index is the position of
\* selectedId in the canonical list, index is none iff selectedId is none,
\* and index lies in 0..itemCount-1 when defined.
C1_IndexAlwaysMatchesSelection ==
  /\ (rendered.currentIndex = NULL) <=> (rendered.selectedImage = NoImage)
  /\ rendered.selectedImage # NoImage =>
       rendered.currentIndex = findIndex(data, rendered.selectedImage)
  /\ rendered.currentIndex # NULL => rendered.currentIndex \in 0..(Len(data) - 1)

\* C2: while an image is selected no shuffle fires: no step between two
\* states with a selected image (rendered, or set by a handler and not yet
\* rendered) changes the item order, and once the effects of the opening
\* render have run no interval timer is live.
C2_NoShuffleWhileOpen ==
  /\ [][rendered.selectedImage # NoImage /\ rendered'.selectedImage # NoImage
          => items' = items /\ shuffles' = shuffles]_vars
  /\ [][Latest(queue, "selectedImage") # NoImage
          /\ LatestNext("selectedImage") # NoImage
          => items' = items /\ shuffles' = shuffles]_vars
  /\ [](rendered.selectedImage # NoImage /\ ~EffectsPending => timers = {})

C2_Witness ==
  /\ OverlayRendered /\ Settled
  /\ rendered.currentIndex = Len(data) - 1
  /\ timers = {}
  /\ shuffles = 2
  /\ items # data

\* C3: the effect flush of a render that closed the lightbox shuffles exactly
\* once and starts exactly one interval; while the lightbox stays closed that
\* interval is live, so a tick can fire, and every tick is one shuffle.
C3_CloseShufflesOnceAndRestarts ==
  /\ [][mounted' /\ effectDeps.selectedImage # NoImage
          /\ effectDeps'.selectedImage = NoImage
          => /\ shuffles' = (shuffles + 1) % ShuffleMod
             /\ items' \in Shuffle(items)
             /\ timers = {} /\ Cardinality(timers') = 1 /\ t' \in timers']_vars
  /\ [][mounted' /\ timers # {} /\ items' # items
          => shuffles' = (shuffles + 1) % ShuffleMod]_vars
  /\ [](mounted /\ ~urgent /\ rendered.selectedImage = NoImage /\ ~EffectsPending
          => timers = {t} /\ t # NoTimer /\ ENABLED Tick)

\* the effects of a closing render have just run: the index of the closed
\* lightbox is still the rendered one, and the new interval is live
C3_Witness ==
  /\ mounted /\ ~EffectsPending
  /\ rendered.selectedImage = NoImage
  /\ rendered.currentIndex = 1
  /\ timers = {t} /\ t # NoTimer
  /\ shuffles = 0

\* C4: at most one interval timer is live, and it is the one the Masonry
\* effect holds; none is live while the lightbox is shown, none once the
\* effect has seen the overlay active, none after the unmount.
C4_AtMostOneTimer ==
  /\ Cardinality(timers) <= 1
  /\ timers \subseteq {t}
  /\ OverlayRendered => timers = {}
  /\ isOverlayActive(effectDeps.selectedImage) => timers = {}
  /\ ~mounted => timers = {}

\* unmounted while the lightbox was shown, after further shuffles
C4_Witness ==
  /\ ~mounted
  /\ OverlayRendered
  /\ shuffles = 0
  /\ timers = {}
  /\ listeners = {}

\* a call of nextImage / prevImage by a handler whose closure holds index i
\* selects the canonical neighbour of i
NextFrom(i) ==
  i # NULL /\ i < Len(data) - 1 => LatestNext("selectedImage") = data[i + 2].css

PrevFrom(i) ==
  i # NULL /\ i > 0 => LatestNext("selectedImage") = data[i].css

\* the touch handlers' view of the gesture
SwipeActive == rendered.isDragging /\ rendered.touchStartX # NULL
SwipeDiff(x) == rendered.touchStartX - x

\* the selection and the index stay as they are, rendered and queued
ViewerUnchanged ==
  /\ rendered' = rendered
  /\ queue'.selectedImage = queue.selectedImage
  /\ queue'.currentIndex = queue.currentIndex

C6_OutOfBoundsIsNoOp ==
  [][/\ KeyDown("ArrowRight")
          /\ (\A l \in listeners : l.currentIndex \in {NULL, Len(data) - 1})
        => UNCHANGED vars
     /\ KeyDown("ArrowLeft")
          /\ (\A l \in listeners : l.currentIndex \in {NULL, 0})
        => UNCHANGED vars
     /\ \A target \in {"prev", "next"} :
          Click(target) /\ Disabled(target) => UNCHANGED vars
     /\ \A x \in TouchXs :
          TouchMove(x) /\ SwipeActive =>
            /\ SwipeDiff(x) > SwipeThreshold
                 /\ rendered.currentIndex \in {NULL, Len(data) - 1}
               => ViewerUnchanged
            /\ SwipeDiff(x) < -SwipeThreshold
                 /\ rendered.currentIndex \in {NULL, 0}
               => ViewerUnchanged]_vars

\* a swipe to the next image at the last index: the gesture is consumed and
\* no selection is queued
C6_Witness ==
  /\ rendered.currentIndex = Len(data) - 1
  /\ rendered.isDragging
  /\ queue.isDragging = <<FALSE>>
  /\ queue.touchStartX = <<>>
  /\ queue.selectedImage = <<>>

\* C7: a click on tile k of the mosaic selects the item shown there, and
\* once rendered and its effects run the lightbox is shown with the index of
\* that item in the canonical list, whatever the order of the mosaic.
C7_SelectOpensAtCanonicalIndex ==
  /\ [][\A k \in 1..NumItems :
          SelectImage(k) => LatestNext("selectedImage") = items[k].css]_vars
  /\ [](Settled /\ rendered.selectedImage # NoImage
          => /\ OverlayRendered
             /\ rendered.currentIndex \in 0..(Len(data) - 1)
             /\ data[rendered.currentIndex + 1].css = rendered.selectedImage)

\* the first tile of a shuffled mosaic shows canonical item 2; selected from
\* Closed, the index effect has queued index 2
C7_Witness ==
  /\ items[1].css = data[3].css
  /\ rendered.selectedImage = data[3].css
  /\ rendered.currentIndex = NULL
  /\ effectDeps.selectedImage = data[3].css
  /\ queue.currentIndex = <<2>>

\* C8: Escape and a click on the backdrop select nothing, and the effects
\* of that render set index to none; a click on the image changes nothing
\* and a click on a navigation button never deselects.
C8_CloseOnlyByEscapeOrBackdrop ==
  /\ [][/\ \A target \in {"backdrop", "frame"} :
             Click(target) => LatestNext("selectedImage") = NoImage
        /\ KeyDown("Escape") /\ listeners # {}
             => LatestNext("selectedImage") = NoImage
        /\ Click("img") => UNCHANGED vars
        /\ \A target \in {"prev", "next"} :
             Click(target) => LatestNext("selectedImage") # NoImage]_vars
  /\ [][mounted' /\ effectDeps.selectedImage # NoImage
          /\ effectDeps'.selectedImage = NoImage
          => LatestNext("currentIndex") = NULL]_vars
  /\ [](Settled /\ rendered.selectedImage = NoImage => rendered.currentIndex = NULL)

\* closed from index 1: the effects of the closing render have queued index
\* none
C8_Witness ==
  /\ rendered.selectedImage = NoImage
  /\ rendered.currentIndex = 1
  /\ ~EffectsPending
  /\ queue.currentIndex = <<NULL>>

\* C9: a touch move handled by a render whose gesture is consumed changes
\* nothing; a move that crosses the threshold consumes the gesture, and the
\* image it selects is at most one step from the index of the render that
\* handles it, also when earlier moves of the gesture are still queued.
C9_SwipeConsumedOnce ==
  [][\A x \in TouchXs :
       TouchMove(x) =>
         /\ ~rendered.isDragging => UNCHANGED vars
         /\ queue' # queue =>
              /\ LatestNext("isDragging") = FALSE
              /\ LatestNext("selectedImage") # NoImage
              /\ Abs(findIndex(data, LatestNext("selectedImage"))
                       - rendered.currentIndex) <= 1]_vars

\* two moves past the threshold were handled before a render: both selected
\* the entry at index 2, one step from index 1
C9_Witness ==
  /\ rendered.isDragging
  /\ rendered.currentIndex = 1
  /\ queue.selectedImage = <<data[3].css, data[3].css>>
  /\ queue.isDragging = <<FALSE, FALSE>>

\* C10: a touch move navigates only when |startX - currentX| > 50: next()
\* when the difference is above 50, prev() when it is below -50; a move of
\* 50 or less, or one with no touch-start before it, changes nothing.
C10_SwipeThreshold ==
  [][\A x \in TouchXs :
       TouchMove(x) =>
         /\ ~SwipeActive => UNCHANGED vars
         /\ SwipeActive /\ Abs(SwipeDiff(x)) <= 50 => UNCHANGED vars
         /\ SwipeActive /\ SwipeDiff(x) > 50 =>
              /\ NextFrom(rendered.currentIndex)
              /\ LatestNext("isDragging") = FALSE
         /\ SwipeActive /\ SwipeDiff(x) < -50 =>
              /\ PrevFrom(rendered.currentIndex)
              /\ LatestNext("isDragging") = FALSE]_vars

\* a drag from x = 0 to the right, past the threshold, at index 1: the entry
\* at index 0 is selected
C10_Witness ==
  /\ rendered.isDragging
  /\ rendered.touchStartX = 0
  /\ rendered.currentIndex = 1
  /\ queue.selectedImage = <<data[1].css>>
  /\ queue.isDragging = <<FALSE>>
  /\ ~urgent

\* ------------------------------------------------- properties of the layout

\* the column accumulators at the moment item i is placed
HeightsBefore(i) == Layout(SubSeq(items, 1, i - 1), columns, width).heights

\* item i was placed in column c (0-based): c is the first shortest column
\* at that moment, and the placement and the accumulators are c's
PlacedIn(placement, i, c) ==
  LET before == HeightsBefore(i)
      after == HeightsBefore(i + 1)
  IN /\ \A d \in 0..(columns - 1) : before[c + 1] <= before[d + 1]
     /\ \A d \in 0..(c - 1) : before[d + 1] > before[c + 1]
     /\ placement.x * columns = width * c
     /\ placement.y = before[c + 1]
     /\ placement.height * 2 = items[i].height
     /\ after = [before EXCEPT ![c + 1] = @ + placement.height]

\* C11: for every column count and item sequence the layout gives exactly
\* one placement per item, in item order, one accumulator per column, and
\* the container height is the largest of the final accumulators.
C11_OnePlacementPerItem ==
  LET placed == gridItems
      hs == heights
  IN /\ Len(placed) = Len(items)
     /\ \A i \in 1..Len(items) : placed[i].css = items[i].css
     /\ Len(hs) = columns
     /\ \A c \in 1..columns : hs[c] <= ContainerHeight(hs)
     /\ \E c \in 1..columns : hs[c] = ContainerHeight(hs)

\* four items in three columns, the tallest column not the last one
C11_Witness ==
  /\ Len(gridItems) = 4
  /\ columns = 3
  /\ heights = <<300, 200, 100>>
  /\ ContainerHeight(heights) = 300

\* C12: each item, in sequence order, goes to the column whose accumulator
\* is minimal at that moment, the lowest index winning a tie; x is
\* (W/C) * column, y the accumulator before the item's render height
\* (naturalHeight / 2) is added to it.
C12_ShortestColumnFirst ==
  LET placed == gridItems
  IN \A i \in 1..Len(items) :
       \E c \in 0..(columns - 1) : PlacedIn(placed[i], i, c)

\* three items of equal height in two columns: the tie of the first item
\* and the tie of the third go to column 0
C12_Witness ==
  /\ columns = 2 /\ width = 600
  /\ Len(items) = 3
  /\ \A i \in 1..3 : items[i].height = 200
  /\ gridItems[1].x = 0 /\ gridItems[1].y = 0
  /\ gridItems[2].x = 300 /\ gridItems[2].y = 0
  /\ gridItems[3].x = 0 /\ gridItems[3].y = 100

\* ------------------------------------------- properties of the item list

\* list a holds every element of list b exactly once and nothing else
IsPermutation(a, b) ==
  /\ Len(a) = Len(b)
  /\ \A i \in 1..Len(b) : Cardinality({j \in 1..Len(a) : a[j] = b[i]}) = 1

\* C13: after any number of shuffles, interleaved with any lightbox and
\* hover events, items is a permutation of the startup dataset: no item is
\* lost, duplicated or recreated, only the order changes.
C13_ItemsPermutationOfData == IsPermutation(items, data)

\* a reordered mosaic with a hovered tile under an open lightbox
C13_Witness ==
  /\ items # data
  /\ hoveredItemKey # NoImage
  /\ rendered.selectedImage # NoImage
  /\ shuffles = 2

\* ----------------------------------------- properties of the update pass

C15_ZeroWidthAllZero ==
  LET placed == gridItems
  IN width = 0 =>
       \A i \in 1..Len(placed) : placed[i].x = 0 /\ placed[i].y = 0

\* C15, amended: with container width 0 and at least one column every
\* placement has x = 0 and width 0; its y does not depend on the width (it
\* is the y the same items get at any other width, which is 0 only for the
\* first item of a column); every coordinate, size and the container
\* height is a defined natural number.
C15_ZeroWidthZeroX ==
  LET placed == gridItems
  IN width = 0 =>
       /\ \A i \in 1..Len(placed) :
            /\ placed[i].x = 0
            /\ placed[i].width = 0
            /\ placed[i].y \in Nat
            /\ placed[i].height \in Nat
       /\ \A w \in Widths :
            LET atW == Layout(items, columns, w).gridItems
            IN \A i \in 1..Len(placed) : placed[i].y = atW[i].y
       /\ ContainerHeight(heights) \in Nat

\* an unmeasured container with one column after a media change: three
\* items of natural height 200 stack at y = 0, 100, 200
C15_Witness ==
  LET placed == gridItems
  IN /\ width = 0
     /\ columns = 1
     /\ Len(placed) = 3
     /\ \A i \in 1..3 : placed[i].x = 0 /\ placed[i].y = 100 * (i - 1)
     /\ ContainerHeight(heights) = 300

\* the area the placements occupy: the sum of width * height
RECURSIVE Area(_)
Area(gs) ==
  IF gs = <<>> THEN 0 ELSE Head(gs).width * Head(gs).height + Area(Tail(gs))

\* every order of the elements of list
RECURSIVE OrdersOf(_)
OrdersOf(list) ==
  IF list = <<>>
    THEN {<<>>}
    ELSE UNION {{<<list[i]>> \o q :
                  q \in OrdersOf(SubSeq(list, 1, i - 1)
                                       \o SubSeq(list, i + 1, Len(list)))} :
                i \in 1..Len(list)}

\* C16: for the same items, column count and width, the layout of any
\* permutation of the items occupies the same total area, and each item
\* gets the same width and height wherever it stands in the sequence.
C16_AreaInvariantUnderPermutation ==
  LET placed == gridItems
      area == Area(placed)
  IN \A p \in OrdersOf(items) :
       LET permuted == Layout(p, columns, width).gridItems
       IN /\ Area(permuted) = area
          /\ \A i, j \in 1..Len(items) :
               permuted[i].css = placed[j].css =>
                 /\ permuted[i].width = placed[j].width
                 /\ permuted[i].height = placed[j].height

\* items of natural height 200, 400, 200 in two columns of width 600: some
\* order fills the columns differently, the area is 600 * 400 all the same
C16_Witness ==
  /\ columns = 2
  /\ width = 1200
  /\ Len(items) = 3
  /\ items[1].height = 200 /\ items[2].height = 400 /\ items[3].height = 200
  /\ heights = <<200, 200>>
  /\ Area(gridItems) = 240000
  /\ \E p \in OrdersOf(items) :
       /\ Layout(p, columns, width).heights = <<300, 100>>
       /\ Area(Layout(p, columns, width).gridItems) = 240000

\* ------------------------------------- properties of the keydown listener

MaxRenderHeight(placed) ==
  IF placed = <<>>
    THEN 0
    ELSE Max([i \in 1..Len(placed) |-> placed[i].height])

\* C18: after a layout pass the tallest and the shortest column accumulator
\* differ by at most the largest render height (naturalHeight / 2) of the
\* items.
C18_ColumnsBalanced ==
  LET hs == heights
  IN Max(hs) - Min(hs) <= MaxRenderHeight(gridItems)

\* items of natural height 200, 200, 400 in two columns of a measured
\* container: the third goes on top of the first and the columns differ by
\* exactly its render height
C18_Witness ==
  LET hs == heights
  IN /\ columns = 2
     /\ width = 600
     /\ Len(items) = 3
     /\ hs = <<300, 100>>
     /\ MaxRenderHeight(gridItems) = 200
     /\ Max(hs) - Min(hs) = 200

\* the column (0-based) item i is placed in
ColumnOf(i) == MinColumn(HeightsBefore(i))

\* the heights of the first n placements that are in column c, summed
RECURSIVE StackHeight(_, _, _, _)
StackHeight(placed, column, c, n) ==
  IF n = 0
    THEN 0
    ELSE StackHeight(placed, column, c, n - 1)
           + (IF column[n] = c THEN placed[n].height ELSE 0)

\* the placements of column c before item i, by index
EarlierInColumn(column, c, i) == {j \in 1..(i - 1) : column[j] = c}

\* C19: within each column the placements are stacked without gap or
\* overlap in sequence order: the first item of a column has y = 0, each
\* later one has the y of the previous item of the column plus that item's
\* height, and the column's final accumulator is the sum of the heights of
\* the items placed in it.  An item's column is the one its x names.
C19_ColumnsStacked ==
  LET placed == gridItems
      hs == heights
      column == [i \in 1..Len(items) |-> ColumnOf(i)]
  IN /\ \A i \in 1..Len(placed) :
          LET c == column[i]
              earlier == EarlierInColumn(column, c, i)
          IN /\ placed[i].x * columns = width * c
             /\ IF earlier = {}
                  THEN placed[i].y = 0
                  ELSE LET prev == CHOOSE j \in earlier : \A k \in earlier : k <= j
                       IN placed[i].y = placed[prev].y + placed[prev].height
     /\ \A c \in 0..(columns - 1) :
          hs[c + 1] = StackHeight(placed, column, c, Len(placed))

\* items of natural height 400, 200, 200, 200 in two columns of width 600:
\* the third stacks on the second, the fourth on the first
C19_Witness ==
  LET placed == gridItems
  IN /\ columns = 2
     /\ width = 1200
     /\ Len(placed) = 4
     /\ placed[1].x = 0 /\ placed[1].y = 0 /\ placed[1].height = 200
     /\ placed[2].x = 600 /\ placed[2].y = 0 /\ placed[2].height = 100
     /\ placed[3].x = 600 /\ placed[3].y = 100
     /\ placed[4].x = 0 /\ placed[4].y = 200
     /\ heights = <<300, 200>>

\* ------------------------------------------- properties of the two writers

\* a step of one of the viewer's handlers or of a hover handler
HandlerStep ==
  \/ \E k \in 1..NumItems : SelectImage(k)
  \/ \E target \in ClickTargets : Click(target)
  \/ \E key \in Keys : KeyDown(key)
  \/ \E x \in TouchXs : TouchStart(x)
  \/ \E x \in TouchXs : TouchMove(x)
  \/ TouchEnd
  \/ \E k \in 1..NumItems : MouseEnter(k)
  \/ MouseLeave

\* a step in which set(shuffle) is called, by the timer or by the effect
ShuffleStep == shuffles' # shuffles

\* C20: viewer state and item order have separate writers.  No step of a
\* select, next, prev, close, key, touch or hover handler changes the item
\* order; no step with a shuffle (timer tick or the effect's immediate one)
\* changes the rendered selection, index or touch-drag state, the hovered
\* css, or the queued selection and touch-drag state, and the only update
\* queued in such a step is the index effect's own, run in the same flush.
C20_SeparateWriters ==
  [][/\ HandlerStep => (items' = items /\ shuffles' = shuffles)
     /\ ShuffleStep =>
          /\ rendered' = rendered
          /\ hoveredItemKey' = hoveredItemKey
          /\ queue'.selectedImage = queue.selectedImage
          /\ queue'.touchStartX = queue.touchStartX
          /\ queue'.isDragging = queue.isDragging
          /\ queue' \in {queue, IndexEffect(queue)}]_vars

\* the viewer was closed in the middle of a drag: the shuffle of the close
\* has run and its timer is live, the drag state is still the one the touch
\* set, and a tile is hovered
C20_Witness ==
  /\ Settled
  /\ rendered.selectedImage = NoImage
  /\ rendered.isDragging
  /\ rendered.touchStartX = 50
  /\ hoveredItemKey = data[1].css
  /\ shuffles = 2
  /\ timers # {}

====
